---- MODULE Spec2Model ----
(***************************************************************************)
(* CPU-scheduling simulator: the scheduling algorithms of algorithms.py    *)
(* (fcfs, sjf_non_preemptive, sjf_preemptive, priority_scheduling,         *)
(* round_robin) over the Process records of process.py, called directly    *)
(* or through run_algorithm of app.py.                                     *)
(*                                                                         *)
(* Python objects are modelled by reference: heap is the sequence of all   *)
(* Process objects, a list of processes is a sequence of indices into      *)
(* heap.  One action models one call prologue, one iteration of an         *)
(* algorithm's loop, or its return.                                        *)
(***************************************************************************)
EXTENDS Integers, Sequences, FiniteSets, TLC

\* ---------------------------------------------------------------- bounds
MaxProcs == 3          \* processes in the caller's list (InitSingle)
MaxArrival == 3        \* arrival_time drawn from 0..MaxArrival
MaxBurst == 3          \* burst_time drawn from 1..MaxBurst
MaxPriority == 1       \* priority drawn from 0..MaxPriority
MaxQuantum == 2        \* time_quantum drawn from 1..MaxQuantum
ReplayProcs == 2       \* processes in the caller's list (InitReplay)
ReplayArrival == 1     \* arrival_time bound (InitReplay)
ReplayBurst == 2       \* burst_time bound (InitReplay)
MaxRuns == 3           \* algorithm runs on one list (InitReplay)
MaxTimeline == 24      \* round_robin stops appending at this many segments
Below == 1             \* unvalidated values go this far below the valid ones
AnyRuns == 2           \* algorithm runs on one list (InitAny)
CompareAlgos == 3      \* algorithms in a compared mapping (InitCompare)
CompareWhole == 1      \* metric values 0..CompareWhole in the largest mappings

\* ------------------------------------------------------- program constants
None == 0              \* Python None as a pid or as a Process reference
Unset == -1            \* the -1 of start_time, completion_time and metrics
DefaultQuantum == 2    \* app.py: quantum used when none is supplied

Algorithms ==
    {"fcfs", "sjf_non_preemptive", "sjf_preemptive",
     "priority_non_preemptive", "priority_preemptive", "round_robin"}

PriorityAlgorithms == {"priority_non_preemptive", "priority_preemptive"}

VARIABLES
    heap,                 \* all Process objects, by reference (index)
    callerList,           \* the caller's list: references to its objects
    entry,                \* "direct" or "run_algorithm"
    alg,                  \* the algorithm of the current run
    quantum_arg,          \* the caller's time_quantum argument: <<>> is None
    time_quantum,         \* round_robin's time_quantum
    pc,                   \* "call", "loop", "done"
    processes,            \* the run's sorted private list (references)
    idx,                  \* fcfs: position of the for loop in processes
    current_time,
    timeline,
    remaining_processes,
    completed_processes,
    current_process,      \* reference or None
    ready_queue,
    returned,             \* the returned (timeline, processes), or <<>>
    history,              \* results of the runs finished so far, by value
    runsLeft,             \* calls the caller still makes on this list
    metrics,              \* run_algorithm's metrics, or <<>>
    all_metrics,          \* simulate's dict algo -> metrics, in insertion order
    comparison            \* compare_algorithms' best_algorithms, or <<>>

vars == <<heap, callerList, entry, alg, quantum_arg, time_quantum, pc,
          processes, idx, current_time, timeline, remaining_processes,
          completed_processes, current_process, ready_queue, returned, history,
          runsLeft, metrics, all_metrics, comparison>>

\* ------------------------------------------------------------ process.py
Process(pid, arrival_time, burst_time, priority) ==
    [pid |-> pid, arrival_time |-> arrival_time, burst_time |-> burst_time,
     priority |-> priority, remaining_time |-> burst_time,
     start_time |-> Unset, completion_time |-> Unset, waiting_time |-> Unset,
     turnaround_time |-> Unset, response_time |-> Unset]

\* Variant: the run-to-completion branch forgets remaining_time = 0.
execute_KeepsRemaining(p, tq) ==
    IF tq = <<>> \/ tq[1] >= p.remaining_time
    THEN p
    ELSE [p EXCEPT !.remaining_time = @ - tq[1]]

\* execute(): the optional time_quantum is <<>> (None) or <<q>>.
executed_time(p, tq) ==
    IF tq = <<>> \/ tq[1] >= p.remaining_time THEN p.remaining_time ELSE tq[1]

execute(p, tq) ==
    IF tq = <<>> \/ tq[1] >= p.remaining_time
    THEN [p EXCEPT !.remaining_time = 0]
    ELSE [p EXCEPT !.remaining_time = @ - tq[1]]

\* ------------------------------------------------------ list/heap helpers
\* Variant: the larger argument, as if by max().
Min_Larger(a, b) == IF a >= b THEN a ELSE b

\* Variant: min() that returns its first argument.
Min_First(a, b) == a

Min(a, b) == IF a <= b THEN a ELSE b

MinOfSet(S) == CHOOSE x \in S : \A y \in S : x <= y

MaxOfSet(S) == CHOOSE x \in S : \A y \in S : x >= y

RECURSIVE SumSeq(_)
SumSeq(s) == IF s = <<>> THEN 0 ELSE Head(s) + SumSeq(Tail(s))

Range(s) == {s[i] : i \in DOMAIN s}

\* [Process(p.pid, p.arrival_time, p.burst_time, p.priority) for p in list]:
\* the new objects are allocated behind the existing ones.
CopyObjects(h, refs) ==
    [i \in 1..Len(refs) |->
        Process(h[refs[i]].pid, h[refs[i]].arrival_time,
                h[refs[i]].burst_time, h[refs[i]].priority)]

\* Variant: a shallow copy, the new list holds the caller's own objects.
CopyRefs_Alias(h, refs) == refs

CopyRefs(h, refs) == [i \in 1..Len(refs) |-> Len(h) + i]

\* list.sort(key=lambda p: p.arrival_time): stable insertion by key.
\* Variant: an unstable sort, equal keys are put in front.
RECURSIVE InsertByArrival_Unstable(_, _, _)
InsertByArrival_Unstable(h, sorted, r) ==
    IF sorted = <<>> THEN <<r>>
    ELSE IF h[Head(sorted)].arrival_time < h[r].arrival_time
         THEN <<Head(sorted)>> \o InsertByArrival_Unstable(h, Tail(sorted), r)
         ELSE <<r>> \o sorted

RECURSIVE InsertByArrival(_, _, _)
InsertByArrival(h, sorted, r) ==
    IF sorted = <<>> THEN <<r>>
    ELSE IF h[Head(sorted)].arrival_time <= h[r].arrival_time
         THEN <<Head(sorted)>> \o InsertByArrival(h, Tail(sorted), r)
         ELSE <<r>> \o sorted

RECURSIVE SortFrom(_, _, _)
SortFrom(h, refs, sorted) ==
    IF refs = <<>> THEN sorted
    ELSE SortFrom(h, Tail(refs), InsertByArrival(h, sorted, Head(refs)))

SortByArrival(h, refs) == SortFrom(h, refs, <<>>)

\* Variant: no arrival filter, every remaining process counts as available.
Available_All(h, refs, t) == refs

\* Variant: a process arriving exactly at the clock is not yet available.
Available_Strict(h, refs, t) ==
    LET arrived(r) == h[r].arrival_time < t
    IN  SelectSeq(refs, arrived)

\* [p for p in remaining_processes if p.arrival_time <= current_time]
Available(h, refs, t) ==
    LET arrived(r) == h[r].arrival_time <= t
    IN  SelectSeq(refs, arrived)

\* list.remove(x): drops the first occurrence.
RECURSIVE Remove(_, _)
Remove(s, r) ==
    IF s = <<>> THEN <<>>
    ELSE IF Head(s) = r THEN Tail(s) ELSE <<Head(s)>> \o Remove(Tail(s), r)

\* Variant: the latest arrival is taken, as if by max().
NextArrival_Latest(h, refs) ==
    MaxOfSet({h[refs[i]].arrival_time : i \in DOMAIN refs})

\* min(p.arrival_time for p in remaining_processes)
NextArrival(h, refs) == MinOfSet({h[refs[i]].arrival_time : i \in DOMAIN refs})

\* timeline.append({...}) of an idle and of a busy segment
IdleSegment(t, next_arrival) ==
    [pid |-> None, start_time |-> t, end_time |-> next_arrival,
     duration |-> next_arrival - t]

\* Variant: end_time without the segment's start.
BusySegment_EndIsDuration(pid, t, execution_time) ==
    [pid |-> pid, start_time |-> t, end_time |-> execution_time,
     duration |-> execution_time]

BusySegment(pid, t, execution_time) ==
    [pid |-> pid, start_time |-> t, end_time |-> t + execution_time,
     duration |-> execution_time]

\* Variant: response_time is recorded at the first dispatch already.
SetStart_WithResponse(p, t) ==
    IF p.start_time = Unset
    THEN [p EXCEPT !.start_time = t, !.response_time = t - p.arrival_time]
    ELSE p

\* Variant: start_time is set at every dispatch.
SetStart_Always(p, t) == [p EXCEPT !.start_time = t]

\* if process.start_time == -1: process.start_time = current_time
SetStart(p, t) == IF p.start_time = Unset THEN [p EXCEPT !.start_time = t] ELSE p

\* Variant: waiting_time from remaining_time instead of burst_time.
SetCompletion_WaitFromRemaining(p, t) ==
    LET c == [p EXCEPT !.completion_time = t]
        ta == [c EXCEPT !.turnaround_time = c.completion_time - c.arrival_time]
        w == [ta EXCEPT !.waiting_time = ta.turnaround_time - ta.remaining_time]
    IN  [w EXCEPT !.response_time = w.start_time - w.arrival_time]

\* completion_time and the three derived metrics
SetCompletion(p, t) ==
    LET c == [p EXCEPT !.completion_time = t]
        ta == [c EXCEPT !.turnaround_time = c.completion_time - c.arrival_time]
        w == [ta EXCEPT !.waiting_time = ta.turnaround_time - ta.burst_time]
    IN  [w EXCEPT !.response_time = w.start_time - w.arrival_time]

\* Variant: the last element with the least key.
RECURSIVE MinScan_Last(_, _, _)
MinScan_Last(keys, i, best) ==
    IF i > Len(keys) THEN best
    ELSE MinScan_Last(keys, i + 1, IF keys[i] <= keys[best] THEN i ELSE best)

\* min(available_processes, key=...): the first element with the least key.
RECURSIVE MinScan(_, _, _)
MinScan(keys, i, best) ==
    IF i > Len(keys) THEN best
    ELSE MinScan(keys, i + 1, IF keys[i] < keys[best] THEN i ELSE best)

FirstMin(keys) == MinScan(keys, 2, 1)

\* min(available_processes, key=lambda p: p.burst_time)
SelectByBurst(h, available) ==
    available[FirstMin([i \in DOMAIN available |-> h[available[i]].burst_time])]

\* Variant: the key is burst_time, as in sjf_non_preemptive.
SelectByRemaining_ByBurst(h, available) ==
    available[FirstMin([i \in DOMAIN available |-> h[available[i]].burst_time])]

\* min(available_processes, key=lambda p: p.remaining_time)
SelectByRemaining(h, available) ==
    available[FirstMin([i \in DOMAIN available |-> h[available[i]].remaining_time])]

\* Variant: the largest priority value is taken, as if by max().
SelectByPriority_Largest(h, available) ==
    available[FirstMin([i \in DOMAIN available |-> 0 - h[available[i]].priority])]

\* min(available_processes, key=lambda p: p.priority)
SelectByPriority(h, available) ==
    available[FirstMin([i \in DOMAIN available |-> h[available[i]].priority])]

\* The preemptive loops' execution_time: up to the next arrival after t among
\* remaining_processes (next_event_time, inf when there is none), or to
\* completion.
FutureArrivals(h, refs, t) ==
    {h[refs[i]].arrival_time : i \in {j \in DOMAIN refs : h[refs[j]].arrival_time > t}}

\* Variant: the selected process always runs to completion.
ExecutionSpan_ToCompletion(h, r, refs, t) == h[r].remaining_time

ExecutionSpan(h, r, refs, t) ==
    IF FutureArrivals(h, refs, t) = {}
    THEN h[r].remaining_time
    ELSE Min(h[r].remaining_time, MinOfSet(FutureArrivals(h, refs, t)) - t)

\* round_robin's admission loop pops the leading elements of
\* remaining_processes that have arrived: their number.
RECURSIVE AdmitCount(_, _, _)
AdmitCount(h, refs, t) ==
    IF refs # <<>> /\ h[Head(refs)].arrival_time <= t
    THEN 1 + AdmitCount(h, Tail(refs), t)
    ELSE 0

Admitted(h, refs, t) == SubSeq(refs, 1, AdmitCount(h, refs, t))

NotAdmitted(h, refs, t) == SubSeq(refs, AdmitCount(h, refs, t) + 1, Len(refs))

\* Variant: deque.pop(), which takes the newest element.
popleft_Right(queue) == <<queue[Len(queue)], SubSeq(queue, 1, Len(queue) - 1)>>

\* deque.popleft(): the element taken and the deque left behind.
popleft(queue) == <<Head(queue), Tail(queue)>>

\* Variant: the preempted process goes back to the front of the queue, as
\* if by appendleft.
Requeue_Front(queue, admitted, process) == (<<process>> \o queue) \o admitted

\* Variant: the process that ran is re-enqueued before the arrivals are
\* admitted.
Requeue_BeforeAdmission(queue, admitted, process) ==
    (queue \o <<process>>) \o admitted

\* The second admission loop, then ready_queue.append(process).
Requeue(queue, admitted, process) == (queue \o admitted) \o <<process>>

\* ------------------------------------------------------------- metrics.py
\* A Python number n / d that is not rounded to an integer: the floats of
\* metrics.py are kept as exact ratios with a positive denominator, and the
\* int 0 as 0 / 1.
Ratio(n, d) == [num |-> n, den |-> d]

Zero == Ratio(0, 1)

\* a < b on such numbers
Less(a, b) == a.num * b.den < b.num * a.den

Field(ps, f) == [i \in DOMAIN ps |-> ps[i][f]]

\* Variant: no early return for an empty list; only the 'if processes'
\* guards of cpu_utilization and throughput remain.
calculate_metrics_Unguarded(ps) ==
    LET total_time ==
            MaxOfSet(Range(Field(ps, "completion_time")))
            - MinOfSet(Range(Field(ps, "arrival_time")))
        n == Len(ps)
    IN  [avg_turnaround_time |-> Ratio(SumSeq(Field(ps, "turnaround_time")), n),
         avg_waiting_time |-> Ratio(SumSeq(Field(ps, "waiting_time")), n),
         avg_response_time |-> Ratio(SumSeq(Field(ps, "response_time")), n),
         cpu_utilization |-> IF ps # <<>> /\ total_time > 0
                             THEN Ratio(SumSeq(Field(ps, "burst_time")) * 100,
                                        total_time)
                             ELSE Zero,
         throughput |-> IF ps # <<>> /\ total_time > 0
                        THEN Ratio(n, total_time) ELSE Zero]

\* Variant: total_time is the last completion_time, counted from time 0.
calculate_metrics_FromZero(ps) ==
    IF ps = <<>>
    THEN [avg_turnaround_time |-> Zero, avg_waiting_time |-> Zero,
          avg_response_time |-> Zero, cpu_utilization |-> Zero,
          throughput |-> Zero]
    ELSE LET total_time == MaxOfSet(Range(Field(ps, "completion_time")))
             n == Len(ps)
         IN  [avg_turnaround_time |-> Ratio(SumSeq(Field(ps, "turnaround_time")), n),
              avg_waiting_time |-> Ratio(SumSeq(Field(ps, "waiting_time")), n),
              avg_response_time |-> Ratio(SumSeq(Field(ps, "response_time")), n),
              cpu_utilization |-> IF total_time > 0
                                  THEN Ratio(SumSeq(Field(ps, "burst_time")) * 100,
                                             total_time)
                                  ELSE Zero,
              throughput |-> IF total_time > 0 THEN Ratio(n, total_time) ELSE Zero]

calculate_metrics(ps) ==
    IF ps = <<>>
    THEN [avg_turnaround_time |-> Zero, avg_waiting_time |-> Zero,
          avg_response_time |-> Zero, cpu_utilization |-> Zero,
          throughput |-> Zero]
    ELSE LET total_turnaround_time == SumSeq(Field(ps, "turnaround_time"))
             total_waiting_time == SumSeq(Field(ps, "waiting_time"))
             total_response_time == SumSeq(Field(ps, "response_time"))
             total_burst_time == SumSeq(Field(ps, "burst_time"))
             max_completion_time == MaxOfSet(Range(Field(ps, "completion_time")))
             min_arrival_time == MinOfSet(Range(Field(ps, "arrival_time")))
             total_time == max_completion_time - min_arrival_time
             n == Len(ps)
         IN  [avg_turnaround_time |-> Ratio(total_turnaround_time, n),
              avg_waiting_time |-> Ratio(total_waiting_time, n),
              avg_response_time |-> Ratio(total_response_time, n),
              cpu_utilization |-> IF total_time > 0
                                  THEN Ratio(total_burst_time * 100, total_time)
                                  ELSE Zero,
              throughput |-> IF total_time > 0 THEN Ratio(n, total_time) ELSE Zero]

metrics_to_compare ==
    <<"avg_turnaround_time", "avg_waiting_time", "avg_response_time",
      "cpu_utilization", "throughput">>

LowerIsBetter == {"avg_turnaround_time", "avg_waiting_time", "avg_response_time"}

\* Variant: 'metrics[metric] <= best_value' and '>=', so the last of several
\* equal values wins.
RECURSIVE BestFrom_LastWins(_, _, _, _)
BestFrom_LastWins(results, metric, i, best) ==
    IF i > Len(results) THEN best
    ELSE LET value == results[i].metrics[metric]
             better == \/ best = <<>>
                       \/ IF metric \in LowerIsBetter
                          THEN ~Less(best[2], value)
                          ELSE ~Less(value, best[2])
         IN  BestFrom_LastWins(results, metric, i + 1,
                               IF better THEN <<results[i].algo, value>> ELSE best)

\* One 'for algo, metrics in results.items()' loop from position i on; best is
\* (best_algo, best_value), <<>> while best_value is still +-inf.
RECURSIVE BestFrom(_, _, _, _)
BestFrom(results, metric, i, best) ==
    IF i > Len(results) THEN best
    ELSE LET value == results[i].metrics[metric]
             better == \/ best = <<>>
                       \/ IF metric \in LowerIsBetter
                          THEN Less(value, best[2])
                          ELSE Less(best[2], value)
         IN  BestFrom(results, metric, i + 1,
                      IF better THEN <<results[i].algo, value>> ELSE best)

\* compare_algorithms: best_algorithms as the sequence of (best_algo,
\* best_value) in the order of metrics_to_compare, from which the HTML table
\* is rendered; the warning when there are no results.
compare_algorithms(results) ==
    IF results = <<>>
    THEN <<"No results to compare.">>
    ELSE [m \in DOMAIN metrics_to_compare |->
             BestFrom(results, metrics_to_compare[m], 1, <<>>)]

\* Variant: a new key goes to the front of the mapping.
DictSet_Prepend(d, algo, value) ==
    IF \E i \in DOMAIN d : d[i].algo = algo
    THEN [i \in DOMAIN d |->
             IF d[i].algo = algo THEN [algo |-> algo, metrics |-> value] ELSE d[i]]
    ELSE <<[algo |-> algo, metrics |-> value]>> \o d

\* all_metrics[algo] = value on an insertion-ordered dict
RECURSIVE DictSet(_, _, _)
DictSet(d, algo, value) ==
    IF d = <<>> THEN <<[algo |-> algo, metrics |-> value]>>
    ELSE IF Head(d).algo = algo
         THEN <<[algo |-> algo, metrics |-> value]>> \o Tail(d)
         ELSE <<Head(d)>> \o DictSet(Tail(d), algo, value)

\* ------------------------------------------------------------------ inputs
Params(A, B, P) == [arrival_time : 0..A, burst_time : 1..B, priority : P]

FcfsExample ==
    <<[arrival_time |-> 0, burst_time |-> 5, priority |-> 0],
      [arrival_time |-> 1, burst_time |-> 3, priority |-> 0],
      [arrival_time |-> 2, burst_time |-> 8, priority |-> 0]>>

SjfExample ==
    <<[arrival_time |-> 0, burst_time |-> 7, priority |-> 0],
      [arrival_time |-> 2, burst_time |-> 4, priority |-> 0],
      [arrival_time |-> 4, burst_time |-> 1, priority |-> 0],
      [arrival_time |-> 5, burst_time |-> 4, priority |-> 0]>>

RoundRobinExample ==
    <<[arrival_time |-> 0, burst_time |-> 5, priority |-> 0],
      [arrival_time |-> 1, burst_time |-> 3, priority |-> 0]>>

Examples == {FcfsExample, SjfExample, RoundRobinExample}

\* A single run: the priorities are all 0 unless a priority algorithm runs
\* (app.py reads the priority fields only when need_priority).
SingleRunInputs(a) ==
    Examples \cup
    UNION {[1..n -> Params(MaxArrival, MaxBurst,
                           IF a \in PriorityAlgorithms THEN 0..MaxPriority ELSE {0})]
           : n \in 0..MaxProcs}

ReplayInputs ==
    UNION {[1..n -> Params(ReplayArrival, ReplayBurst, 0..MaxPriority)]
           : n \in 0..ReplayProcs}

Quanta(a) == IF a = "round_robin" THEN 1..MaxQuantum ELSE {DefaultQuantum}

Entries == {"direct", "run_algorithm"}

\* The time_quantum argument of a call: run_algorithm's is Optional and
\* defaults to None.
QuantumArgs(a, e) ==
    {<<q>> : q \in Quanta(a)} \cup
    (IF a = "round_robin" /\ e = "run_algorithm" THEN {<<>>} ELSE {})

\* The caller has built its list with Process(i+1, ...) (app.py) and chosen
\* the algorithm; nothing has run yet.
InitWith(a, e, q, params, runs) ==
    /\ heap = [i \in 1..Len(params) |->
                  Process(i, params[i].arrival_time, params[i].burst_time,
                          params[i].priority)]
    /\ callerList = [i \in 1..Len(params) |-> i]
    /\ entry = e
    /\ alg = a
    /\ quantum_arg = q
    /\ time_quantum = None
    /\ pc = "call"
    /\ processes = <<>>
    /\ idx = 1
    /\ current_time = 0
    /\ timeline = <<>>
    /\ remaining_processes = <<>>
    /\ completed_processes = <<>>
    /\ current_process = None
    /\ ready_queue = <<>>
    /\ returned = <<>>
    /\ history = <<>>
    /\ runsLeft = runs
    /\ metrics = <<>>
    /\ all_metrics = <<>>
    /\ comparison = <<>>

\* One direct call of one algorithm.
InitSingle ==
    \E a \in Algorithms :
        \E q \in QuantumArgs(a, "direct"), params \in SingleRunInputs(a) :
            InitWith(a, "direct", q, params, 1)

\* Up to MaxRuns calls on one list, all direct or all through run_algorithm.
InitReplay ==
    \E a \in Algorithms, e \in Entries :
        \E q \in QuantumArgs(a, e), params \in ReplayInputs :
            InitWith(a, e, q, params, MaxRuns)

Init == InitSingle \/ InitReplay

\* Inputs as the program accepts them: Process.__init__, the algorithms and
\* run_algorithm check nothing, and simulate parses arrival_time and
\* burst_time with int() alone; only simulate refuses a time_quantum < 1.
AnyParams ==
    [arrival_time : -Below..ReplayArrival, burst_time : -Below..ReplayBurst,
     priority : 0..MaxPriority]

AnyInputs == UNION {[1..n -> AnyParams] : n \in 0..ReplayProcs}

AnyQuantumArgs(a, e) ==
    IF a = "round_robin"
    THEN {<<q>> : q \in -Below..MaxQuantum} \cup QuantumArgs(a, e)
    ELSE QuantumArgs(a, e)

InitAny ==
    \E a \in Algorithms, e \in Entries :
        \E q \in AnyQuantumArgs(a, e), params \in AnyInputs :
            InitWith(a, e, q, params, AnyRuns)

\* The algorithms in the order simulate runs them for 'Compare All'.
AlgorithmOrder ==
    <<"fcfs", "sjf_non_preemptive", "sjf_preemptive", "priority_non_preemptive",
      "priority_preemptive", "round_robin">>

\* The values a metric takes in a mapping of k algorithms: 0, 1/2 and 2/4 in
\* the small mappings, whole numbers in the largest.
CompareValues(k) ==
    IF k < CompareAlgos
    THEN {Ratio(0, 1), Ratio(1, 2), Ratio(2, 4)}
    ELSE {Ratio(v, 1) : v \in 0..CompareWhole}

CompareMetrics(k) ==
    [avg_turnaround_time : CompareValues(k), avg_waiting_time : CompareValues(k),
     avg_response_time : CompareValues(k), cpu_utilization : CompareValues(k),
     throughput : CompareValues(k)]

\* compare_algorithms is about to be called on a mapping; no run is under way.
InitCompare ==
    /\ \E k \in 0..CompareAlgos :
          \E ms \in [1..k -> CompareMetrics(k)] :
             all_metrics = [i \in 1..k |->
                               [algo |-> AlgorithmOrder[i], metrics |-> ms[i]]]
    /\ comparison = <<>>
    /\ pc = "done"
    /\ entry = "run_algorithm"
    /\ runsLeft = 0
    /\ heap = <<>>
    /\ callerList = <<>>
    /\ alg = "fcfs"
    /\ quantum_arg = <<>>
    /\ time_quantum = None
    /\ processes = <<>>
    /\ idx = 1
    /\ current_time = 0
    /\ timeline = <<>>
    /\ remaining_processes = <<>>
    /\ completed_processes = <<>>
    /\ current_process = None
    /\ ready_queue = <<>>
    /\ returned = <<<<>>, <<>>>>
    /\ history = <<>>
    /\ metrics = <<>>

\* ----------------------------------------------------------- call prologue
\* The caller's objects are heap[1..Len(callerList)]; objects of earlier runs
\* are garbage.  run_algorithm copies the list before the algorithm copies it
\* again; the algorithm then sorts its copy and sets its locals.
CallerHeap == SubSeq(heap, 1, Len(callerList))

ArgHeap(e) ==
    IF e = "run_algorithm"
    THEN CallerHeap \o CopyObjects(CallerHeap, callerList)
    ELSE CallerHeap

ArgList(e) ==
    IF e = "run_algorithm" THEN CopyRefs(CallerHeap, callerList) ELSE callerList

\* Variant: the clock of the previous run is kept instead of reset to 0.
InitialClock_Stale(a, h, sorted) ==
    IF a = "round_robin" /\ sorted # <<>>
    THEN h[sorted[1]].arrival_time
    ELSE current_time

\* Variant: round_robin leaves the clock at 0 like the other algorithms.
InitialClock_Zero(a, h, sorted) == 0

\* current_time = 0; round_robin then moves it to the first arrival.
InitialClock(a, h, sorted) ==
    IF a = "round_robin" /\ sorted # <<>> THEN h[sorted[1]].arrival_time ELSE 0

\* rr_time_quantum = 2 if time_quantum is None else time_quantum
rr_time_quantum(q) == IF q = <<>> THEN DefaultQuantum ELSE q[1]

Prologue(a, q) ==
    LET h == ArgHeap(entry) \o CopyObjects(ArgHeap(entry), ArgList(entry))
        sorted == SortByArrival(h, CopyRefs(ArgHeap(entry), ArgList(entry)))
    IN  /\ heap' = h
        /\ processes' = sorted
        /\ idx' = 1
        /\ timeline' = <<>>
        /\ remaining_processes' = IF a = "fcfs" THEN <<>> ELSE sorted
        /\ completed_processes' = <<>>
        /\ current_process' = None
        /\ ready_queue' = <<>>
        /\ current_time' = InitialClock(a, h, sorted)
        /\ returned' = <<>>
        /\ metrics' = <<>>
        /\ time_quantum' = rr_time_quantum(q)
        /\ pc' = "loop"
        /\ runsLeft' = runsLeft - 1
        /\ UNCHANGED <<callerList, entry, history, all_metrics, comparison>>

\* The first call on the caller's list.
Call ==
    /\ pc = "call"
    /\ Prologue(alg, quantum_arg)
    /\ UNCHANGED <<alg, quantum_arg>>

\* A further call on the same list (app.py simulate, 'Compare All').
CallAgain ==
    /\ pc = "done"
    /\ runsLeft > 0
    /\ \E a \in Algorithms :
         \E q \in QuantumArgs(a, entry) :
            /\ alg' = a
            /\ quantum_arg' = q
            /\ Prologue(a, q)

Frame ==
    UNCHANGED <<callerList, entry, alg, quantum_arg, time_quantum, returned,
                history, runsLeft, metrics, all_metrics, comparison>>

\* -------------------------------------------------------------------- fcfs
\* One iteration of 'for process in processes'.
FcfsIter ==
    /\ pc = "loop"
    /\ alg = "fcfs"
    /\ idx <= Len(processes)
    /\ LET r == processes[idx]
           gap == current_time < heap[r].arrival_time
           t == IF gap THEN heap[r].arrival_time ELSE current_time
           started == SetStart(heap[r], t)
           execution_time == executed_time(started, <<>>)
           ran == execute(started, <<>>)
       IN  /\ timeline' =
                 Append(IF gap /\ current_time > 0
                        THEN Append(timeline,
                                    IdleSegment(current_time, heap[r].arrival_time))
                        ELSE timeline,
                        BusySegment(ran.pid, t, execution_time))
           /\ current_time' = t + execution_time
           /\ heap' = [heap EXCEPT ![r] = SetCompletion(ran, t + execution_time)]
           /\ idx' = idx + 1
    /\ UNCHANGED <<pc, processes, remaining_processes, completed_processes,
                   current_process, ready_queue>>
    /\ Frame

\* ------------------------------------------------------ sjf_non_preemptive
SjfNonPreemptiveIdle ==
    /\ pc = "loop"
    /\ alg = "sjf_non_preemptive"
    /\ remaining_processes # <<>>
    /\ Available(heap, remaining_processes, current_time) = <<>>
    /\ LET next_arrival == NextArrival(heap, remaining_processes)
       IN  /\ timeline' = IF current_time < next_arrival
                          THEN Append(timeline, IdleSegment(current_time, next_arrival))
                          ELSE timeline
           /\ current_time' = next_arrival
    /\ UNCHANGED <<heap, pc, processes, idx, remaining_processes,
                   completed_processes, current_process, ready_queue>>
    /\ Frame

SjfNonPreemptiveRun ==
    /\ pc = "loop"
    /\ alg = "sjf_non_preemptive"
    /\ remaining_processes # <<>>
    /\ Available(heap, remaining_processes, current_time) # <<>>
    /\ LET selected_process ==
               SelectByBurst(heap, Available(heap, remaining_processes, current_time))
           started == SetStart(heap[selected_process], current_time)
           execution_time == executed_time(started, <<>>)
           ran == execute(started, <<>>)
       IN  /\ timeline' = Append(timeline,
                                 BusySegment(ran.pid, current_time, execution_time))
           /\ current_time' = current_time + execution_time
           /\ heap' = [heap EXCEPT ![selected_process] =
                          SetCompletion(ran, current_time + execution_time)]
           /\ remaining_processes' = Remove(remaining_processes, selected_process)
           /\ completed_processes' = Append(completed_processes, selected_process)
    /\ UNCHANGED <<pc, processes, idx, current_process, ready_queue>>
    /\ Frame

\* ---------------------------------- sjf_preemptive and priority_scheduling
\* The idle branch of both loops: move the clock to the next arrival.
PreemptiveLoopIdle(a) ==
    /\ pc = "loop"
    /\ alg \in a
    /\ remaining_processes # <<>>
    /\ Available(heap, remaining_processes, current_time) = <<>>
    /\ LET next_arrival == NextArrival(heap, remaining_processes)
       IN  /\ timeline' = IF current_time < next_arrival
                          THEN Append(timeline, IdleSegment(current_time, next_arrival))
                          ELSE timeline
           /\ current_time' = next_arrival
    /\ current_process' = None
    /\ UNCHANGED <<heap, pc, processes, idx, remaining_processes,
                   completed_processes, ready_queue>>
    /\ Frame

\* The rest of an iteration once selected_process and execution_time are known.
RunSelected(selected_process, execution_time) ==
    LET started == IF current_process # selected_process
                   THEN SetStart(heap[selected_process], current_time)
                   ELSE heap[selected_process]
        ran == [started EXCEPT !.remaining_time = @ - execution_time]
    IN  /\ timeline' = Append(timeline,
                              BusySegment(ran.pid, current_time, execution_time))
        /\ current_time' = current_time + execution_time
        /\ IF ran.remaining_time = 0
           THEN /\ heap' = [heap EXCEPT ![selected_process] =
                               SetCompletion(ran, current_time + execution_time)]
                /\ remaining_processes' = Remove(remaining_processes, selected_process)
                /\ completed_processes' = Append(completed_processes, selected_process)
                /\ current_process' = None
           ELSE /\ heap' = [heap EXCEPT ![selected_process] = ran]
                /\ current_process' = selected_process
                /\ UNCHANGED <<remaining_processes, completed_processes>>

SjfPreemptiveIdle == PreemptiveLoopIdle({"sjf_preemptive"})

SjfPreemptiveRun ==
    /\ pc = "loop"
    /\ alg = "sjf_preemptive"
    /\ remaining_processes # <<>>
    /\ Available(heap, remaining_processes, current_time) # <<>>
    /\ LET selected_process ==
               SelectByRemaining(heap, Available(heap, remaining_processes, current_time))
       IN  RunSelected(selected_process,
                       ExecutionSpan(heap, selected_process, remaining_processes,
                                     current_time))
    /\ UNCHANGED <<pc, processes, idx, ready_queue>>
    /\ Frame

PriorityIdle == PreemptiveLoopIdle(PriorityAlgorithms)

\* selected_process of priority_scheduling: the non-preemptive variant keeps
\* a current_process that is still available.
PrioritySelected(h, available, current, preemptive) ==
    IF ~preemptive /\ current # None /\ current \in Range(available)
    THEN current
    ELSE SelectByPriority(h, available)

\* Variant: the non-preemptive variant also stops at the next arrival.
PriorityExecutionTime_AlwaysSpan(h, r, refs, t, preemptive) ==
    ExecutionSpan(h, r, refs, t)

\* Variant: the preemptive flag is read the wrong way round.
PriorityExecutionTime_Inverted(h, r, refs, t, preemptive) ==
    IF preemptive THEN h[r].remaining_time ELSE ExecutionSpan(h, r, refs, t)

\* execution_time of priority_scheduling
PriorityExecutionTime(h, r, refs, t, preemptive) ==
    IF preemptive THEN ExecutionSpan(h, r, refs, t) ELSE h[r].remaining_time

PriorityRun ==
    /\ pc = "loop"
    /\ alg \in PriorityAlgorithms
    /\ remaining_processes # <<>>
    /\ Available(heap, remaining_processes, current_time) # <<>>
    /\ LET preemptive == alg = "priority_preemptive"
           selected_process ==
               PrioritySelected(heap,
                                Available(heap, remaining_processes, current_time),
                                current_process, preemptive)
       IN  RunSelected(selected_process,
                       PriorityExecutionTime(heap, selected_process,
                                             remaining_processes, current_time,
                                             preemptive))
    /\ UNCHANGED <<pc, processes, idx, ready_queue>>
    /\ Frame

\* -------------------------------------------------------------- round_robin
\* ready_queue after the admission loop at the top of an iteration.
QueueAfterAdmission ==
    ready_queue \o Admitted(heap, remaining_processes, current_time)

RoundRobinIdle ==
    /\ pc = "loop"
    /\ alg = "round_robin"
    /\ remaining_processes # <<>> \/ ready_queue # <<>>
    /\ QueueAfterAdmission = <<>>
    /\ LET left == NotAdmitted(heap, remaining_processes, current_time)
       IN  /\ remaining_processes' = left
           /\ IF left # <<>>
              THEN LET next_arrival == heap[left[1]].arrival_time
                   IN  /\ timeline' =
                             IF current_time < next_arrival
                             THEN Append(timeline,
                                         IdleSegment(current_time, next_arrival))
                             ELSE timeline
                       /\ current_time' = next_arrival
              ELSE UNCHANGED <<timeline, current_time>>
    /\ UNCHANGED <<heap, pc, processes, idx, completed_processes,
                   current_process, ready_queue>>
    /\ Frame

RoundRobinRun ==
    /\ pc = "loop"
    /\ alg = "round_robin"
    /\ remaining_processes # <<>> \/ ready_queue # <<>>
    /\ QueueAfterAdmission # <<>>
    /\ Len(timeline) < MaxTimeline
    /\ LET process == popleft(QueueAfterAdmission)[1]
           queue == popleft(QueueAfterAdmission)[2]
           left == NotAdmitted(heap, remaining_processes, current_time)
           started == SetStart(heap[process], current_time)
           execution_time == Min(time_quantum, started.remaining_time)
           ran == [started EXCEPT !.remaining_time = @ - execution_time]
           now == current_time + execution_time
           admitted == Admitted(heap, left, now)
       IN  /\ timeline' = Append(timeline,
                                 BusySegment(ran.pid, current_time, execution_time))
           /\ current_time' = now
           /\ remaining_processes' = NotAdmitted(heap, left, now)
           /\ IF ran.remaining_time > 0
              THEN /\ ready_queue' = Requeue(queue, admitted, process)
                   /\ heap' = [heap EXCEPT ![process] = ran]
                   /\ UNCHANGED completed_processes
              ELSE /\ ready_queue' = queue \o admitted
                   /\ heap' = [heap EXCEPT ![process] = SetCompletion(ran, now)]
                   /\ completed_processes' = Append(completed_processes, process)
    /\ UNCHANGED <<pc, processes, idx, current_process>>
    /\ Frame

\* ------------------------------------------------------------------- return
\* Variant: round_robin's loop ends only once a process has completed.
LoopDone_NeedsCompletion ==
    CASE alg = "fcfs" -> idx > Len(processes)
      [] alg = "round_robin" ->
            remaining_processes = <<>> /\ ready_queue = <<>>
            /\ completed_processes # <<>>
      [] OTHER -> remaining_processes = <<>>

\* The loop condition of the running algorithm.
LoopDone ==
    CASE alg = "fcfs" -> idx > Len(processes)
      [] alg = "round_robin" -> remaining_processes = <<>> /\ ready_queue = <<>>
      [] OTHER -> remaining_processes = <<>>

\* fcfs returns its sorted list, the others completed_processes.
ReturnedList == IF alg = "fcfs" THEN processes ELSE completed_processes

Return ==
    /\ pc = "loop"
    /\ LoopDone
    /\ pc' = "done"
    /\ returned' = <<timeline, ReturnedList>>
    /\ history' = Append(history,
                         [alg |-> alg, time_quantum |-> time_quantum,
                          timeline |-> timeline,
                          processes |-> [i \in DOMAIN ReturnedList |->
                                           heap[ReturnedList[i]]]])
    /\ metrics' = IF entry = "run_algorithm"
                  THEN calculate_metrics([i \in DOMAIN ReturnedList |->
                                             heap[ReturnedList[i]]])
                  ELSE <<>>
    /\ all_metrics' = IF entry = "run_algorithm"
                      THEN DictSet(all_metrics, alg, metrics')
                      ELSE all_metrics
    /\ UNCHANGED <<heap, callerList, entry, alg, quantum_arg, time_quantum,
                   processes, idx, current_time, timeline, remaining_processes,
                   completed_processes, current_process, ready_queue, runsLeft,
                   comparison>>

\* comparison = compare_algorithms(all_metrics), once the runs are over
\* (app.py simulate, 'Compare All').
Compare ==
    /\ pc = "done"
    /\ entry = "run_algorithm"
    /\ runsLeft = 0
    /\ comparison = <<>>
    /\ comparison' = compare_algorithms(all_metrics)
    /\ UNCHANGED <<heap, callerList, entry, alg, quantum_arg, time_quantum, pc,
                   processes, idx, current_time, timeline, remaining_processes,
                   completed_processes, current_process, ready_queue, returned,
                   history, runsLeft, metrics, all_metrics>>

Next ==
    \/ Call
    \/ CallAgain
    \/ FcfsIter
    \/ SjfNonPreemptiveIdle
    \/ SjfNonPreemptiveRun
    \/ SjfPreemptiveIdle
    \/ SjfPreemptiveRun
    \/ PriorityIdle
    \/ PriorityRun
    \/ RoundRobinIdle
    \/ RoundRobinRun
    \/ Return
    \/ Compare

Spec == Init /\ [][Next]_vars

\* The same program on inputs that nothing has validated.
SpecAny == InitAny /\ [][Next]_vars

\* compare_algorithms alone, on any mapping of metrics.
SpecCompare == InitCompare /\ [][Compare]_vars

\* 'Compare All' of simulate: at least one process (num_processes < 1 is
\* refused), each with a priority.
CompareAllInputs ==
    UNION {[1..n -> Params(MaxArrival, MaxBurst, 0..MaxPriority)] : n \in 1..MaxProcs}

\* time_quantum if algo == "Round Robin" else None; simulate has refused a
\* time_quantum < 1.
CompareAllQuantumArgs(a) ==
    IF a = "round_robin" THEN {<<q>> : q \in 1..MaxQuantum} ELSE {<<>>}

\* simulate has built the list and is about to run the first algorithm of
\* 'Compare All' through run_algorithm.
InitCompareAll ==
    \E params \in CompareAllInputs :
        InitWith(AlgorithmOrder[1], "run_algorithm", <<>>, params,
                 Len(AlgorithmOrder))

\* The next turn of 'for algo in algorithms'.
CallNext ==
    /\ pc = "done"
    /\ runsLeft > 0
    /\ LET a == AlgorithmOrder[Len(history) + 1]
       IN  \E q \in CompareAllQuantumArgs(a) :
              /\ alg' = a
              /\ quantum_arg' = q
              /\ Prologue(a, q)

NextCompareAll ==
    \/ Call
    \/ CallNext
    \/ FcfsIter
    \/ SjfNonPreemptiveIdle
    \/ SjfNonPreemptiveRun
    \/ SjfPreemptiveIdle
    \/ SjfPreemptiveRun
    \/ PriorityIdle
    \/ PriorityRun
    \/ RoundRobinIdle
    \/ RoundRobinRun
    \/ Return
    \/ Compare

\* simulate's 'Compare All' from the first run to the comparison.
SpecCompareAll == InitCompareAll /\ [][NextCompareAll]_vars

\* ================================================================== claims
\* The caller's processes, the returned processes, and the caller's
\* parameters, by value.
Input == [i \in DOMAIN callerList |-> heap[callerList[i]]]

Finalized ==
    IF pc = "done" THEN [i \in DOMAIN returned[2] |-> heap[returned[2][i]]] ELSE <<>>

InputParams ==
    [i \in DOMAIN Input |->
        [arrival_time |-> Input[i].arrival_time, burst_time |-> Input[i].burst_time,
         priority |-> Input[i].priority]]

\* The caller's process with a given pid, and its position in the caller's list.
InputIndex(pid) == CHOOSE i \in DOMAIN Input : Input[i].pid = pid

InputOf(pid) == Input[InputIndex(pid)]

Durations(segments) == [k \in DOMAIN segments |-> segments[k].duration]

SegmentsOf(pid) == {k \in DOMAIN timeline : timeline[k].pid = pid}

IsBusy(segment) == segment.pid # None

BusySegments == SelectSeq(timeline, IsBusy)

NonPreemptiveAlgorithms == {"fcfs", "sjf_non_preemptive", "priority_non_preemptive"}

PreemptiveAlgorithms == {"sjf_preemptive", "priority_preemptive", "round_robin"}

\* C1: in every returned list, every process has turnaround_time =
\* completion_time - arrival_time, waiting_time = turnaround_time - burst_time,
\* response_time = start_time - arrival_time, and waiting_time >= 0.
C1_MetricsConsistent ==
    pc = "done" =>
        \A i \in DOMAIN Finalized :
            LET p == Finalized[i]
            IN  /\ p.turnaround_time = p.completion_time - p.arrival_time
                /\ p.waiting_time = p.turnaround_time - p.burst_time
                /\ p.response_time = p.start_time - p.arrival_time
                /\ p.waiting_time >= 0

\* A finished sjf_preemptive run in which a process was dispatched on arrival
\* and still waited (it was preempted), next to one that waited before starting.
C1_Witness ==
    /\ pc = "done"
    /\ alg = "sjf_preemptive"
    /\ \E i, j \in DOMAIN Finalized :
          /\ Finalized[i].response_time = 0 /\ Finalized[i].waiting_time > 0
          /\ Finalized[j].response_time > 0

\* C2: for a non-empty input, the durations of all returned segments, idle
\* ones included, sum to max(completion_time) - min(arrival_time).
C2_DurationsSpanArrivalToCompletion ==
    (pc = "done" /\ Finalized # <<>>) =>
        SumSeq(Durations(returned[1])) =
            MaxOfSet({Finalized[i].completion_time : i \in DOMAIN Finalized})
            - MinOfSet({Finalized[i].arrival_time : i \in DOMAIN Finalized})

\* C3: every segment of the timeline has end_time > start_time and duration =
\* end_time - start_time, and ends where the next one starts.
C3_TimelineWellFormed ==
    \A k \in DOMAIN timeline :
        /\ timeline[k].end_time > timeline[k].start_time
        /\ timeline[k].duration = timeline[k].end_time - timeline[k].start_time
        /\ k < Len(timeline) => timeline[k].end_time = timeline[k + 1].start_time

\* A returned timeline with an idle segment between two busy ones and a
\* process that runs in more than one segment.
C3_Witness ==
    /\ pc = "done"
    /\ returned[1] = timeline
    /\ \E k \in DOMAIN timeline :
          /\ 1 < k /\ k < Len(timeline)
          /\ timeline[k].pid = None
          /\ timeline[k - 1].pid # None
    /\ \E pid \in {Input[i].pid : i \in DOMAIN Input} : Cardinality(SegmentsOf(pid)) > 1

\* C4: the returned list holds each input process, by pid, exactly once and
\* nothing else, each with remaining_time = 0 and start_time, completion_time
\* and the derived metrics set.
C4_FinalizedIsInput ==
    pc = "done" =>
        /\ Len(Finalized) = Len(Input)
        /\ \A i \in DOMAIN Input :
              Cardinality({j \in DOMAIN Finalized : Finalized[j].pid = Input[i].pid}) = 1
        /\ \A j \in DOMAIN Finalized :
              LET p == Finalized[j]
              IN  /\ \E i \in DOMAIN Input :
                        /\ Input[i].pid = p.pid
                        /\ Input[i].arrival_time = p.arrival_time
                        /\ Input[i].burst_time = p.burst_time
                        /\ Input[i].priority = p.priority
                  /\ p.remaining_time = 0
                  /\ p.start_time # Unset
                  /\ p.completion_time # Unset
                  /\ p.turnaround_time # Unset
                  /\ p.waiting_time # Unset
                  /\ p.response_time # Unset

\* A finished round_robin run on three processes that returns them in another
\* order than the caller's.
C4_Witness ==
    /\ pc = "done"
    /\ alg = "round_robin"
    /\ Len(Input) = 3
    /\ Len(Finalized) = 3
    /\ Finalized[1].pid # Input[1].pid

\* C5: no step of a run, direct or through run_algorithm, changes a field of
\* a Process object of the caller's list or the order of that list.
C5_CallerUntouched ==
    [][CallerHeap' = CallerHeap /\ callerList' = callerList]_vars

\* Two runs through run_algorithm have finished on a caller's list that is not
\* in arrival order, and the private copies were scheduled.
C5_Witness ==
    /\ pc = "done"
    /\ entry = "run_algorithm"
    /\ Len(history) = 2
    /\ Len(Input) = 2
    /\ Input[1].arrival_time > Input[2].arrival_time
    /\ \A i \in DOMAIN Finalized : Finalized[i].completion_time # Unset

\* C6: two runs of the same algorithm with the same quantum on the same list
\* return the same timeline and the same processes, whatever ran in between.
C6_Deterministic ==
    \A i, j \in DOMAIN history :
        (history[i].alg = history[j].alg
         /\ history[i].time_quantum = history[j].time_quantum)
        => (history[i].timeline = history[j].timeline
            /\ history[i].processes = history[j].processes)

\* sjf_preemptive ran, then another algorithm with another result, then
\* sjf_preemptive again.
C6_Witness ==
    /\ Len(history) = 3
    /\ history[1].alg = "sjf_preemptive"
    /\ history[3].alg = "sjf_preemptive"
    /\ history[2].alg # "sjf_preemptive"
    /\ history[2].timeline # history[1].timeline
    /\ Len(history[1].timeline) > 2

\* C7: after fcfs, sjf_non_preemptive and non-preemptive priority_scheduling,
\* each process has exactly one timeline segment, of duration burst_time.
C7_NonPreemptiveOneSegment ==
    (pc = "done" /\ alg \in NonPreemptiveAlgorithms) =>
        \A i \in DOMAIN Finalized :
            /\ Cardinality(SegmentsOf(Finalized[i].pid)) = 1
            /\ \A k \in SegmentsOf(Finalized[i].pid) :
                  timeline[k].duration = Finalized[i].burst_time

\* A finished non-preemptive priority run in which a process of smaller
\* priority value arrived while another one was running.
C7_Witness ==
    /\ pc = "done"
    /\ alg = "priority_non_preemptive"
    /\ \E i, j \in DOMAIN Finalized :
          /\ Finalized[j].priority < Finalized[i].priority
          /\ Finalized[i].start_time < Finalized[j].arrival_time
          /\ Finalized[j].arrival_time < Finalized[i].completion_time

\* C8: after sjf_preemptive, preemptive priority_scheduling and round_robin,
\* the durations of the segments of a pid sum to its burst_time.
C8_PreemptiveDurationsSumToBurst ==
    (pc = "done" /\ alg \in PreemptiveAlgorithms) =>
        \A i \in DOMAIN Finalized :
            LET mine(segment) == segment.pid = Finalized[i].pid
            IN  SumSeq(Durations(SelectSeq(timeline, mine))) = Finalized[i].burst_time

\* A finished round_robin run in which a process ran in three segments, the
\* last one shorter than the quantum.
C8_Witness ==
    /\ pc = "done"
    /\ alg = "round_robin"
    /\ \E i \in DOMAIN Finalized :
          /\ Cardinality(SegmentsOf(Finalized[i].pid)) = 3
          /\ \E k \in SegmentsOf(Finalized[i].pid) : timeline[k].duration < time_quantum

\* The clock when the k-th busy segment of fcfs is dispatched.
FcfsClock(k) == IF k = 1 THEN 0 ELSE BusySegments[k - 1].end_time

\* C9: fcfs runs the processes in order of arrival_time, ties in the caller's
\* order, each in one segment of burst_time from max(clock, arrival_time); the
\* example P1(0,5), P2(1,3), P3(2,8) gives [P1:0-5, P2:5-8, P3:8-16] and the
\* waiting times [0, 4, 6].
C9_FcfsOrder ==
    (pc = "done" /\ alg = "fcfs") =>
        /\ Len(BusySegments) = Len(Input)
        /\ \A k, l \in DOMAIN BusySegments :
              k < l =>
                 LET p == InputOf(BusySegments[k].pid)
                     q == InputOf(BusySegments[l].pid)
                 IN  \/ p.arrival_time < q.arrival_time
                     \/ /\ p.arrival_time = q.arrival_time
                        /\ InputIndex(p.pid) < InputIndex(q.pid)
        /\ \A k \in DOMAIN BusySegments :
              LET p == InputOf(BusySegments[k].pid)
              IN  /\ BusySegments[k].start_time =
                        IF FcfsClock(k) >= p.arrival_time
                        THEN FcfsClock(k) ELSE p.arrival_time
                  /\ BusySegments[k].end_time = BusySegments[k].start_time + p.burst_time
        /\ InputParams = FcfsExample =>
              /\ timeline =
                    <<[pid |-> 1, start_time |-> 0, end_time |-> 5, duration |-> 5],
                      [pid |-> 2, start_time |-> 5, end_time |-> 8, duration |-> 3],
                      [pid |-> 3, start_time |-> 8, end_time |-> 16, duration |-> 8]>>
              /\ [i \in DOMAIN Finalized |-> Finalized[i].waiting_time] = <<0, 4, 6>>

\* fcfs has finished on the example.
C9_Witness ==
    /\ pc = "done"
    /\ alg = "fcfs"
    /\ InputParams = FcfsExample

\* C10: every busy segment of sjf_non_preemptive runs a process to completion
\* that has, among the processes arrived by the segment's start and not run
\* before, the smallest burst_time, ties going to the earlier arrival_time and
\* then to the caller's order; the example P1(0,7), P2(2,4), P3(4,1), P4(5,4)
\* is dispatched in the order P1, P3, P2, P4.
C10_SjfPicksShortest ==
    alg = "sjf_non_preemptive" =>
        /\ \A k \in DOMAIN timeline :
              timeline[k].pid # None =>
                 LET p == InputOf(timeline[k].pid)
                 IN  /\ timeline[k].duration = p.burst_time
                     /\ p.arrival_time <= timeline[k].start_time
                     /\ \A l \in DOMAIN timeline : timeline[l].pid = p.pid => l = k
                     /\ \A i \in DOMAIN Input :
                           LET q == Input[i]
                           IN  (/\ q.pid # p.pid
                                /\ q.arrival_time <= timeline[k].start_time
                                /\ \A l \in 1..(k - 1) : timeline[l].pid # q.pid)
                               => \/ p.burst_time < q.burst_time
                                  \/ /\ p.burst_time = q.burst_time
                                     /\ \/ p.arrival_time < q.arrival_time
                                        \/ /\ p.arrival_time = q.arrival_time
                                           /\ InputIndex(p.pid) < i
        /\ (pc = "done" /\ InputParams = SjfExample) =>
              [k \in DOMAIN BusySegments |-> BusySegments[k].pid] = <<1, 3, 2, 4>>

\* sjf_non_preemptive has finished on the example.
C10_Witness ==
    /\ pc = "done"
    /\ alg = "sjf_non_preemptive"
    /\ InputParams = SjfExample

\* The process at the front of round_robin's queue once the arrived processes
\* are admitted behind the waiting ones.
RoundRobinFront ==
    IF ready_queue # <<>> THEN Head(ready_queue) ELSE Head(remaining_processes)

\* C11: every busy segment that round_robin appends runs the process at the
\* front of the FIFO ready queue for min(time_quantum, remaining_time) and
\* takes that much off its remaining_time; with quantum 2 the example P1(0,5),
\* P2(1,3) gives [P1:0-2, P2:2-4, P1:4-6, P2:6-7, P1:7-8] and the completion
\* times 8 and 7.
C11_RoundRobinSlices ==
    /\ [][(/\ alg = "round_robin" /\ pc = "loop" /\ pc' = "loop"
           /\ Len(timeline') = Len(timeline) + 1
           /\ timeline'[Len(timeline')].pid # None)
          => LET front == RoundRobinFront
                 segment == timeline'[Len(timeline')]
                 slice == IF time_quantum <= heap[front].remaining_time
                          THEN time_quantum ELSE heap[front].remaining_time
             IN  /\ segment.pid = heap[front].pid
                 /\ segment.duration = slice
                 /\ heap'[front].remaining_time = heap[front].remaining_time - slice
         ]_vars
    /\ [](/\ pc = "done" /\ alg = "round_robin" /\ time_quantum = 2
          /\ InputParams = RoundRobinExample
          => /\ timeline =
                   <<[pid |-> 1, start_time |-> 0, end_time |-> 2, duration |-> 2],
                     [pid |-> 2, start_time |-> 2, end_time |-> 4, duration |-> 2],
                     [pid |-> 1, start_time |-> 4, end_time |-> 6, duration |-> 2],
                     [pid |-> 2, start_time |-> 6, end_time |-> 7, duration |-> 1],
                     [pid |-> 1, start_time |-> 7, end_time |-> 8, duration |-> 1]>>
             /\ \A i \in DOMAIN Finalized :
                   Finalized[i].completion_time = IF Finalized[i].pid = 1 THEN 8 ELSE 7)

\* round_robin has finished on the example with quantum 2, the queue having
\* held a waiting process in front of a re-enqueued one.
C11_Witness ==
    /\ pc = "done"
    /\ alg = "round_robin"
    /\ time_quantum = 2
    /\ InputParams = RoundRobinExample
    /\ Len(timeline) = 5

HasInvalidProcess ==
    \E i \in DOMAIN Input : Input[i].burst_time <= 0 \/ Input[i].arrival_time < 0

\* C12: a run given a process with burst_time <= 0 or arrival_time < 0 fails
\* with InvalidProcess: it never simulates, builds no timeline and returns
\* nothing.
C12_InvalidProcessRejected ==
    HasInvalidProcess =>
        /\ pc \notin {"loop", "done"}
        /\ timeline = <<>>
        /\ returned = <<>>

\* C13: round_robin given a time_quantum <= 0, directly or through
\* run_algorithm, fails with InvalidParameter before it simulates anything;
\* run_algorithm given no time_quantum runs round_robin with quantum 2.
C13_InvalidQuantumRejected ==
    alg = "round_robin" =>
        /\ (quantum_arg # <<>> /\ quantum_arg[1] <= 0) =>
               /\ pc \notin {"loop", "done"}
               /\ timeline = <<>>
               /\ returned = <<>>
        /\ (quantum_arg = <<>> /\ pc # "call") => time_quantum = 2

\* C14: on an empty list every algorithm leaves its loop at once and returns
\* an empty timeline and an empty list of processes.
C14_EmptyRunReturnsEmpty ==
    callerList = <<>> =>
        /\ timeline = <<>>
        /\ pc = "loop" => ENABLED Return
        /\ pc = "done" => returned = <<<<>>, <<>>>>

\* round_robin, which looks up the first arrival before its loop, has
\* returned from a run on the empty list.
C14_Witness ==
    /\ callerList = <<>>
    /\ alg = "round_robin"
    /\ pc = "done"
    /\ returned = <<<<>>, <<>>>>

\* The work a run still has to do: the remaining_time of its processes, and
\* the processes that have yet to arrive.
WorkLeft ==
    SumSeq([i \in DOMAIN processes |-> heap[processes[i]].remaining_time])
    + Cardinality({i \in DOMAIN processes :
                     heap[processes[i]].arrival_time > current_time})

\* C15: every run on a valid input, round_robin with a quantum >= 1, leaves
\* its loop after finitely many iterations and then every process has
\* completed: inside the loop an iteration is always possible, each iteration
\* either ends the loop or leaves strictly less work (never less than none),
\* and after the loop every process has remaining_time 0 and a completion_time.
C15_Terminates ==
    /\ [](pc = "loop" => (WorkLeft >= 0 /\ ENABLED <<Next>>_vars))
    /\ [][pc = "loop" => (pc' = "done" \/ WorkLeft' < WorkLeft)]_vars
    /\ [](pc = "done" =>
             /\ Len(returned[2]) = Len(callerList)
             /\ \A i \in DOMAIN processes :
                   /\ heap[processes[i]].remaining_time = 0
                   /\ heap[processes[i]].completion_time # Unset)

\* round_robin with quantum 1 has finished a run of more than eight
\* iterations, idle ones included.
C15_Witness ==
    /\ pc = "done"
    /\ alg = "round_robin"
    /\ time_quantum = 1
    /\ Len(timeline) > 8
    /\ \E k \in DOMAIN timeline : timeline[k].pid = None

MetricNames == {metrics_to_compare[m] : m \in DOMAIN metrics_to_compare}

\* C16: calculate_metrics of an empty list of processes returns the summary
\* with all five metrics 0.
C16_EmptyMetricsAreZero ==
    (pc = "done" /\ entry = "run_algorithm" /\ Finalized = <<>>) =>
        /\ DOMAIN metrics = MetricNames
        /\ \A m \in MetricNames : metrics[m].num = 0 /\ metrics[m].den = 1

\* run_algorithm has returned from a run on the empty list, its metrics
\* computed.
C16_Witness ==
    /\ pc = "done"
    /\ entry = "run_algorithm"
    /\ callerList = <<>>
    /\ returned = <<<<>>, <<>>>>
    /\ DOMAIN metrics = MetricNames

\* The number r is n / d.
IsQuotient(r, n, d) == r.den > 0 /\ r.num * d = n * r.den

\* max(completion_time) - min(arrival_time) over the returned processes
TotalTime ==
    MaxOfSet({Finalized[i].completion_time : i \in DOMAIN Finalized})
    - MinOfSet({Finalized[i].arrival_time : i \in DOMAIN Finalized})

\* C17: for a non-empty list, with T = max(completion_time) -
\* min(arrival_time), calculate_metrics gives cpu_utilization = 100 *
\* sum(burst_time) / T and throughput = len / T when T > 0 and both 0 when
\* T <= 0, and the three averages are the sums of turnaround_time,
\* waiting_time and response_time divided by the number of processes.
C17_MetricsFormulas ==
    (pc = "done" /\ entry = "run_algorithm" /\ Finalized # <<>>) =>
        LET n == Len(Finalized)
            sum(f) == SumSeq([i \in DOMAIN Finalized |-> Finalized[i][f]])
        IN  /\ DOMAIN metrics = MetricNames
            /\ IsQuotient(metrics.avg_turnaround_time, sum("turnaround_time"), n)
            /\ IsQuotient(metrics.avg_waiting_time, sum("waiting_time"), n)
            /\ IsQuotient(metrics.avg_response_time, sum("response_time"), n)
            /\ IF TotalTime > 0
               THEN /\ IsQuotient(metrics.cpu_utilization,
                                  100 * sum("burst_time"), TotalTime)
                    /\ IsQuotient(metrics.throughput, n, TotalTime)
               ELSE /\ IsQuotient(metrics.cpu_utilization, 0, 1)
                    /\ IsQuotient(metrics.throughput, 0, 1)

\* run_algorithm has returned the metrics of two valid processes of which the
\* first arrives after time 0, so that T is not the last completion_time, and
\* the average waiting time is not a whole number.
C17_Witness ==
    /\ pc = "done"
    /\ entry = "run_algorithm"
    /\ Len(Finalized) = 2
    /\ \A i \in DOMAIN Finalized :
          Finalized[i].burst_time > 0 /\ Finalized[i].arrival_time > 0
    /\ TotalTime > 0
    /\ metrics.avg_waiting_time.num % metrics.avg_waiting_time.den # 0

\* a < b and a = b on the numbers of a mapping
Smaller(a, b) == a.num * b.den < b.num * a.den

SameValue(a, b) == a.num * b.den = b.num * a.den

\* value a is strictly better than value b for the metric
Beats(metric, a, b) ==
    IF metric \in LowerIsBetter THEN Smaller(a, b) ELSE Smaller(b, a)

\* C18: for each of the five metrics compare_algorithms names as best an
\* algorithm of the mapping whose value is the lowest for
\* avg_turnaround_time, avg_waiting_time and avg_response_time and the
\* highest for cpu_utilization and throughput, the first in insertion order
\* among several with that value, and it leaves the mapping as it was.
C18_BestPerMetric ==
    /\ [](Len(comparison) = Len(metrics_to_compare) =>
            \A m \in DOMAIN metrics_to_compare :
                LET metric == metrics_to_compare[m]
                    value(j) == all_metrics[j].metrics[metric]
                IN  \E i \in DOMAIN all_metrics :
                        /\ comparison[m][1] = all_metrics[i].algo
                        /\ SameValue(comparison[m][2], value(i))
                        /\ \A j \in DOMAIN all_metrics :
                              /\ ~Beats(metric, value(j), value(i))
                              /\ j < i => Beats(metric, value(i), value(j)))
    /\ [][comparison' # comparison => all_metrics' = all_metrics]_vars

\* Three algorithms were compared; the second and third share the lowest
\* average waiting time and the highest throughput, and the second is named
\* for both.
C18_Witness ==
    /\ Len(all_metrics) = 3
    /\ Len(comparison) = Len(metrics_to_compare)
    /\ \E m, k \in DOMAIN metrics_to_compare :
          /\ metrics_to_compare[m] = "avg_waiting_time"
          /\ metrics_to_compare[k] = "throughput"
          /\ comparison[m][1] = all_metrics[2].algo
          /\ comparison[k][1] = all_metrics[2].algo
          /\ SameValue(all_metrics[2].metrics.avg_waiting_time,
                       all_metrics[3].metrics.avg_waiting_time)
          /\ SameValue(all_metrics[2].metrics.throughput,
                       all_metrics[3].metrics.throughput)

\* The remaining_time of a pid when segment k starts: its burst_time less the
\* durations of its earlier segments.
RemainingAt(pid, k) ==
    LET earlier(l) == IF l < k /\ timeline[l].pid = pid THEN timeline[l].duration ELSE 0
    IN  InputOf(pid).burst_time - SumSeq([l \in DOMAIN timeline |-> earlier(l)])

\* p comes before q in the arrival-sorted list (the sort is stable).
SortedBefore(p, q) ==
    \/ p.arrival_time < q.arrival_time
    \/ /\ p.arrival_time = q.arrival_time
       /\ InputIndex(p.pid) < InputIndex(q.pid)

\* The pid that ran in the segment before segment k, None if none did.
PreviousPid(k) == IF k > 1 THEN timeline[k - 1].pid ELSE None

\* C19: in sjf_preemptive the process of every busy segment has arrived, is
\* not completed, and has the smallest remaining_time of all such processes
\* at the segment's start; of several with that remaining_time the one that
\* ran in the previous segment is kept, and otherwise the earliest in the
\* arrival-sorted order is taken.
C19_SrtfPicksShortestRemaining ==
    alg = "sjf_preemptive" =>
        \A k \in DOMAIN timeline :
            timeline[k].pid # None =>
               LET p == InputOf(timeline[k].pid)
                   start == timeline[k].start_time
               IN  /\ p.arrival_time <= start
                   /\ RemainingAt(p.pid, k) > 0
                   /\ \A i \in DOMAIN Input :
                         LET q == Input[i]
                         IN  (/\ q.pid # p.pid
                              /\ q.arrival_time <= start
                              /\ RemainingAt(q.pid, k) > 0)
                             => \/ RemainingAt(p.pid, k) < RemainingAt(q.pid, k)
                                \/ /\ RemainingAt(p.pid, k) = RemainingAt(q.pid, k)
                                   /\ \/ PreviousPid(k) = p.pid
                                      \/ /\ PreviousPid(k) # q.pid
                                         /\ SortedBefore(p, q)

\* A finished sjf_preemptive run in which the running process was kept when
\* a process arrived with a burst_time equal to what the running one had
\* left, and in which another process was preempted by a shorter arrival.
C19_Witness ==
    /\ pc = "done"
    /\ alg = "sjf_preemptive"
    /\ \E k \in DOMAIN timeline :
          /\ k > 1
          /\ timeline[k].pid # None
          /\ timeline[k].pid = timeline[k - 1].pid
          /\ \E i \in DOMAIN Input :
                /\ Input[i].pid # timeline[k].pid
                /\ Input[i].arrival_time = timeline[k].start_time
                /\ Input[i].burst_time = RemainingAt(timeline[k].pid, k)
    /\ \E k \in DOMAIN timeline :
          /\ k > 1
          /\ timeline[k].pid # None
          /\ timeline[k - 1].pid # None
          /\ timeline[k].pid # timeline[k - 1].pid
          /\ RemainingAt(timeline[k - 1].pid, k) > 0

\* The arrival times after the start of segment k of the processes that are
\* not completed when it starts.
LaterArrivals(k) ==
    {Input[i].arrival_time :
        i \in {j \in DOMAIN Input :
                 /\ Input[j].arrival_time > timeline[k].start_time
                 /\ RemainingAt(Input[j].pid, k) > 0}}

\* C20: in sjf_preemptive and preemptive priority_scheduling every busy
\* segment ends when its process completes or at the earliest arrival_time
\* after the segment's start of a process not yet completed, whichever is
\* sooner, and a process's remaining_time is its burst_time less the
\* durations of its segments so far; the next selection is made there.
C20_SegmentsEndAtArrivalOrCompletion ==
    (alg \in {"sjf_preemptive", "priority_preemptive"} /\ pc # "call") =>
        /\ \A k \in DOMAIN timeline :
              timeline[k].pid # None =>
                 LET completion == timeline[k].start_time
                                   + RemainingAt(timeline[k].pid, k)
                 IN  timeline[k].end_time =
                        IF LaterArrivals(k) # {}
                           /\ MinOfSet(LaterArrivals(k)) < completion
                        THEN MinOfSet(LaterArrivals(k))
                        ELSE completion
        /\ \A i \in DOMAIN processes :
              heap[processes[i]].remaining_time =
                 RemainingAt(heap[processes[i]].pid, Len(timeline) + 1)
        /\ current_time = IF timeline = <<>> THEN 0
                          ELSE timeline[Len(timeline)].end_time

\* A finished preemptive priority run in which a segment ended at an arrival
\* before its process had completed, the process being preempted there, and
\* another segment ended at an arrival after which its process went on.
C20_Witness ==
    /\ pc = "done"
    /\ alg = "priority_preemptive"
    /\ \E k \in DOMAIN timeline :
          /\ k < Len(timeline)
          /\ timeline[k].pid # None
          /\ timeline[k].duration < RemainingAt(timeline[k].pid, k)
          /\ timeline[k + 1].pid # timeline[k].pid
    /\ \E k \in DOMAIN timeline :
          /\ k < Len(timeline)
          /\ timeline[k].pid # None
          /\ timeline[k].duration < RemainingAt(timeline[k].pid, k)
          /\ timeline[k + 1].pid = timeline[k].pid

\* C21: in both variants of priority_scheduling the process of every busy
\* segment has arrived, is not completed, and has the smallest priority value
\* of all such processes at the segment's start, the earliest in the
\* arrival-sorted order among several with that value.
C21_PriorityPicksSmallest ==
    alg \in PriorityAlgorithms =>
        \A k \in DOMAIN timeline :
            timeline[k].pid # None =>
               LET p == InputOf(timeline[k].pid)
                   start == timeline[k].start_time
               IN  /\ p.arrival_time <= start
                   /\ RemainingAt(p.pid, k) > 0
                   /\ \A i \in DOMAIN Input :
                         LET q == Input[i]
                         IN  (/\ q.pid # p.pid
                              /\ q.arrival_time <= start
                              /\ RemainingAt(q.pid, k) > 0)
                             => \/ p.priority < q.priority
                                \/ /\ p.priority = q.priority
                                   /\ SortedBefore(p, q)

\* A finished preemptive priority run in which a process took the CPU from
\* one of larger priority value, and in which, at another dispatch, two
\* arrived processes had the same priority.
C21_Witness ==
    /\ pc = "done"
    /\ alg = "priority_preemptive"
    /\ \E k \in DOMAIN timeline :
          /\ k > 1
          /\ timeline[k].pid # None
          /\ timeline[k - 1].pid # None
          /\ timeline[k - 1].pid # timeline[k].pid
          /\ RemainingAt(timeline[k - 1].pid, k) > 0
          /\ InputOf(timeline[k].pid).priority < InputOf(timeline[k - 1].pid).priority
    /\ \E k \in DOMAIN timeline :
          /\ timeline[k].pid # None
          /\ \E i \in DOMAIN Input :
                /\ Input[i].pid # timeline[k].pid
                /\ Input[i].arrival_time <= timeline[k].start_time
                /\ RemainingAt(Input[i].pid, k) > 0
                /\ Input[i].priority = InputOf(timeline[k].pid).priority

\* C22: in non-preemptive priority_scheduling a dispatched process runs from
\* its dispatch for burst_time without interruption, whoever arrives
\* meanwhile: its segment starts at its start_time and ends at start_time +
\* burst_time, which is its completion_time, and no other segment starts in
\* between.
C22_NonPreemptivePriorityRunsThrough ==
    alg = "priority_non_preemptive" =>
        /\ \A k \in DOMAIN timeline :
              timeline[k].pid # None =>
                 /\ timeline[k].end_time =
                       timeline[k].start_time + InputOf(timeline[k].pid).burst_time
                 /\ \A l \in DOMAIN timeline :
                       (/\ l # k
                        /\ timeline[k].start_time <= timeline[l].start_time)
                       => timeline[k].end_time <= timeline[l].start_time
        /\ \A i \in DOMAIN processes :
              LET p == heap[processes[i]]
              IN  p.start_time # Unset =>
                     /\ p.completion_time = p.start_time + p.burst_time
                     /\ \E k \in DOMAIN timeline :
                           /\ timeline[k].pid = p.pid
                           /\ timeline[k].start_time = p.start_time
                           /\ timeline[k].end_time = p.completion_time

\* A finished non-preemptive priority run in which a process of smaller
\* priority value arrived strictly inside the run of another one and was
\* dispatched when that one completed.
C22_Witness ==
    /\ pc = "done"
    /\ alg = "priority_non_preemptive"
    /\ \E i, j \in DOMAIN Finalized :
          /\ Finalized[j].priority < Finalized[i].priority
          /\ Finalized[i].start_time < Finalized[j].arrival_time
          /\ Finalized[j].arrival_time < Finalized[i].completion_time
          /\ Finalized[j].start_time = Finalized[i].completion_time
          /\ Finalized[i].burst_time > 1

PositionIn(s, r) == CHOOSE i \in DOMAIN s : s[i] = r

\* C23: when a slice of round_robin ends, the ready queue holds every arrived
\* process that has not completed: first those that were waiting, then those
\* that arrived by the new clock, in arrival order, and last the process that
\* just ran if it has time left; so between two consecutive segments of a
\* process every other process that had arrived by the end of the first and
\* had not been dispatched yet gets its first segment.
C23_ArrivalsBeforeRequeue ==
    /\ [][(/\ alg = "round_robin" /\ pc = "loop" /\ pc' = "loop"
           /\ Len(timeline') = Len(timeline) + 1
           /\ timeline'[Len(timeline')].pid # None)
          => LET ran == RoundRobinFront
                 waited(r) == heap[r].arrival_time <= current_time
                 queue == ready_queue'
             IN  /\ \A i \in DOMAIN processes :
                       LET r == processes[i]
                       IN  (r \in Range(queue)) <=>
                              (/\ heap[r].arrival_time <= current_time'
                               /\ heap'[r].remaining_time > 0)
                 /\ \A a, b \in DOMAIN queue :
                       a < b =>
                          /\ queue[a] # ran
                          /\ queue[a] # queue[b]
                          /\ (queue[b] # ran /\ waited(queue[b])) => waited(queue[a])
                          /\ (queue[b] # ran /\ ~waited(queue[a])) =>
                                PositionIn(processes, queue[a])
                                   < PositionIn(processes, queue[b])
         ]_vars
    /\ [](alg = "round_robin" =>
            \A k, l \in DOMAIN timeline :
                (/\ k < l
                 /\ timeline[k].pid # None
                 /\ timeline[l].pid = timeline[k].pid)
                => \A i \in DOMAIN Input :
                      (/\ Input[i].pid # timeline[k].pid
                       /\ Input[i].arrival_time <= timeline[k].end_time
                       /\ \A m \in 1..k : timeline[m].pid # Input[i].pid)
                      => \E m \in (k + 1)..(l - 1) : timeline[m].pid = Input[i].pid)

\* A finished round_robin run in which a process arrived exactly at the end
\* of a slice of another process that had time left, and ran next.
C23_Witness ==
    /\ pc = "done"
    /\ alg = "round_robin"
    /\ \E k \in DOMAIN timeline :
          /\ k < Len(timeline)
          /\ timeline[k].pid # None
          /\ RemainingAt(timeline[k].pid, k + 1) > 0
          /\ timeline[k + 1].pid # None
          /\ timeline[k + 1].pid # timeline[k].pid
          /\ InputOf(timeline[k + 1].pid).arrival_time = timeline[k].end_time

\* The earliest arrival_time of a non-empty input.
FirstArrival == MinOfSet({Input[i].arrival_time : i \in DOMAIN Input})

\* C24: when the earliest arrival_time a of a non-empty input is greater
\* than 0, the timelines of fcfs and round_robin start with a busy segment at
\* a, and those of sjf_non_preemptive, sjf_preemptive and both variants of
\* priority_scheduling start with an idle segment from 0 to a, followed by a
\* busy one.
C24_LeadingIdle ==
    (Input # <<>> /\ FirstArrival > 0) =>
        /\ pc = "done" => timeline # <<>>
        /\ timeline # <<>> =>
              IF alg \in {"fcfs", "round_robin"}
              THEN /\ timeline[1].pid # None
                   /\ timeline[1].start_time = FirstArrival
              ELSE /\ timeline[1] = [pid |-> None, start_time |-> 0,
                                     end_time |-> FirstArrival,
                                     duration |-> FirstArrival]
                   /\ Len(timeline) > 1 =>
                         /\ timeline[2].pid # None
                         /\ timeline[2].start_time = FirstArrival

\* On one list whose first process arrives after time 0, fcfs returned a
\* timeline that starts busy, then sjf_preemptive one that starts idle, then
\* round_robin one that starts busy.
C24_Witness ==
    /\ pc = "done"
    /\ Len(history) = 3
    /\ Input # <<>>
    /\ FirstArrival > 0
    /\ history[1].alg = "fcfs"
    /\ history[1].timeline[1].pid # None
    /\ history[2].alg = "sjf_preemptive"
    /\ history[2].timeline[1].pid = None
    /\ history[3].alg = "round_robin"
    /\ history[3].timeline[1].pid # None

\* The processes that are not completed when segment k starts.
Unfinished(k) == {i \in DOMAIN Input : RemainingAt(Input[i].pid, k) > 0}

\* C25: an idle segment starts at a clock at which no process that has
\* arrived is still uncompleted, ends at the earliest arrival_time of the
\* uncompleted processes, where the clock then stands and a busy segment
\* follows; so the CPU is never idle while an arrived process has work left.
C25_IdleOnlyWhenNothingToRun ==
    \A k \in DOMAIN timeline :
        timeline[k].pid = None =>
           /\ Unfinished(k) # {}
           /\ \A i \in Unfinished(k) :
                 Input[i].arrival_time > timeline[k].start_time
           /\ timeline[k].end_time =
                 MinOfSet({Input[i].arrival_time : i \in Unfinished(k)})
           /\ IF k = Len(timeline)
              THEN current_time = timeline[k].end_time
              ELSE /\ timeline[k + 1].pid # None
                   /\ timeline[k + 1].start_time = timeline[k].end_time

\* A finished sjf_non_preemptive run with an idle segment after a busy one,
\* at whose start two processes with different arrival times were still to
\* come.
C25_Witness ==
    /\ pc = "done"
    /\ alg = "sjf_non_preemptive"
    /\ \E k \in DOMAIN timeline :
          /\ k > 1
          /\ timeline[k].pid = None
          /\ \E i, j \in Unfinished(k) :
                Input[i].arrival_time < Input[j].arrival_time

\* The first timeline segment that carries the pid.
FirstSegment(pid) == MinOfSet(SegmentsOf(pid))

\* C26: the start_time of a process is -1 as long as no timeline segment
\* carries its pid, is the start of the first such segment from then on, and
\* no step of the run changes it once set, preemption and resumption
\* included.
C26_StartTimeFixed ==
    /\ [](pc \in {"loop", "done"} =>
            \A i \in DOMAIN processes :
                LET p == heap[processes[i]]
                IN  p.start_time =
                       IF SegmentsOf(p.pid) = {} THEN Unset
                       ELSE timeline[FirstSegment(p.pid)].start_time)
    /\ [][pc = "loop" =>
            \A i \in DOMAIN processes :
                heap[processes[i]].start_time # Unset =>
                   heap'[processes[i]].start_time = heap[processes[i]].start_time
         ]_vars

\* A round_robin run is under way in which a process that was preempted and
\* has resumed, at a later clock than its start_time, waits beside one that
\* has not been dispatched yet.
C26_Witness ==
    /\ pc = "loop"
    /\ alg = "round_robin"
    /\ \E i, j \in DOMAIN processes :
          /\ Cardinality(SegmentsOf(heap[processes[i]].pid)) > 1
          /\ heap[processes[i]].remaining_time > 0
          /\ \E k \in SegmentsOf(heap[processes[i]].pid) :
                timeline[k].start_time > heap[processes[i]].start_time
          /\ heap[processes[j]].start_time = Unset

\* C27: in every state of a run on valid input each process has 0 <=
\* remaining_time <= burst_time and, once its completion_time is set,
\* remaining_time = 0; no step of the run increases a remaining_time, and
\* the step that sets completion_time leaves remaining_time 0.
C27_RemainingTimeBounds ==
    /\ [](\A r \in DOMAIN heap :
            /\ 0 <= heap[r].remaining_time
            /\ heap[r].remaining_time <= heap[r].burst_time
            /\ heap[r].completion_time # Unset => heap[r].remaining_time = 0)
    /\ [][pc = "loop" =>
            \A r \in DOMAIN heap :
                /\ heap'[r].remaining_time <= heap[r].remaining_time
                /\ (heap[r].completion_time = Unset
                    /\ heap'[r].completion_time # Unset)
                   => (heap[r].remaining_time > 0 /\ heap'[r].remaining_time = 0)
         ]_vars

\* A preemptive priority run is under way in which one process has completed
\* and another has run for part of its burst_time only.
C27_Witness ==
    /\ pc = "loop"
    /\ alg = "priority_preemptive"
    /\ \E i, j \in DOMAIN processes :
          /\ heap[processes[i]].completion_time # Unset
          /\ heap[processes[j]].remaining_time > 0
          /\ heap[processes[j]].remaining_time < heap[processes[j]].burst_time

\* The four fields an algorithm assigns on completion.
CompletionFields(p) ==
    {p.completion_time, p.turnaround_time, p.waiting_time, p.response_time}

\* C28: completion_time, turnaround_time, waiting_time and response_time of
\* a process are all -1 while its remaining_time is positive, are all set by
\* the step that brings remaining_time to 0, and from then on no step of the
\* run changes any field of that process.
C28_FinalizedOnceAtCompletion ==
    /\ [](pc \in {"loop", "done"} =>
            \A i \in DOMAIN processes :
                IF heap[processes[i]].remaining_time > 0
                THEN CompletionFields(heap[processes[i]]) = {Unset}
                ELSE Unset \notin CompletionFields(heap[processes[i]]))
    /\ [][(pc = "loop" \/ (pc = "done" /\ pc' = "done")) =>
            \A i \in DOMAIN processes :
                /\ (heap[processes[i]].remaining_time > 0
                    /\ heap'[processes[i]].remaining_time = 0)
                   => (/\ CompletionFields(heap[processes[i]]) = {Unset}
                       /\ Unset \notin CompletionFields(heap'[processes[i]]))
                /\ heap[processes[i]].remaining_time = 0
                   => heap'[processes[i]] = heap[processes[i]]
         ]_vars

\* A preemptive run is under way in which two processes completed in
\* different steps and a third has been dispatched but not completed.
C28_Witness ==
    /\ pc = "loop"
    /\ alg = "sjf_preemptive"
    /\ \E i, j, k \in DOMAIN processes :
          /\ heap[processes[i]].completion_time # Unset
          /\ heap[processes[j]].completion_time > heap[processes[i]].completion_time
          /\ heap[processes[k]].remaining_time > 0
          /\ heap[processes[k]].start_time # Unset

\* C29: no busy segment carrying pid p starts before p's arrival_time, and
\* every finalized process has start_time >= arrival_time and
\* response_time >= 0.
C29_NoRunBeforeArrival ==
    /\ \A k \in DOMAIN timeline :
          IsBusy(timeline[k]) =>
             timeline[k].start_time >= InputOf(timeline[k].pid).arrival_time
    /\ \A i \in DOMAIN processes :
          heap[processes[i]].completion_time # Unset =>
             /\ heap[processes[i]].start_time >= heap[processes[i]].arrival_time
             /\ heap[processes[i]].response_time >= 0

\* A finished sjf_non_preemptive run that idled until its first arrival,
\* dispatched one process the moment it arrived and made another one wait.
C29_Witness ==
    /\ pc = "done"
    /\ alg = "sjf_non_preemptive"
    /\ timeline # <<>>
    /\ ~IsBusy(timeline[1])
    /\ \E i, j \in DOMAIN Finalized :
          /\ Finalized[i].arrival_time > 0
          /\ Finalized[i].response_time = 0
          /\ Finalized[j].response_time > 0

\* max(p.completion_time for p in processes) of a returned list
LastCompletion(ps) == MaxOfSet({ps[i].completion_time : i \in DOMAIN ps})

MetricIndex(name) ==
    CHOOSE m \in DOMAIN metrics_to_compare : metrics_to_compare[m] = name

\* C30: in a 'Compare All' run on a valid non-empty list, the runs of the six
\* algorithms all end with the same max(completion_time) and so have equal
\* cpu_utilization and equal throughput, and compare_algorithms reports the
\* first-inserted algorithm, fcfs, as best for both.
C30_SameLastCompletion ==
    /\ \A i, j \in DOMAIN history :
          LastCompletion(history[i].processes) = LastCompletion(history[j].processes)
    /\ \A i, j \in DOMAIN all_metrics :
          \A m \in {"cpu_utilization", "throughput"} :
             SameValue(all_metrics[i].metrics[m], all_metrics[j].metrics[m])
    /\ comparison # <<>> =>
          /\ [i \in DOMAIN all_metrics |-> all_metrics[i].algo] = AlgorithmOrder
          /\ \A m \in {"cpu_utilization", "throughput"} :
                comparison[MetricIndex(m)][1] = AlgorithmOrder[1]

\* The comparison of a 'Compare All' run is made: the CPU was idle for some
\* time, round_robin ran with quantum 1, and the best average waiting time is
\* not that of fcfs.
C30_Witness ==
    /\ comparison # <<>>
    /\ Len(history) = Len(AlgorithmOrder)
    /\ time_quantum = 1
    /\ Smaller(all_metrics[1].metrics.cpu_utilization, Ratio(100, 1))
    /\ comparison[MetricIndex("avg_waiting_time")][1] # AlgorithmOrder[1]

\* (n - 1) * q for the run under way
ResponseBound == (Len(processes) - 1) * time_quantum

\* C31: in a round_robin run of n valid processes with quantum q >= 1, a
\* process that has arrived and was not yet dispatched has waited at most
\* (n - 1) * q, every dispatched process was first dispatched at most
\* (n - 1) * q after its arrival, and every finalized process has
\* response_time <= (n - 1) * q.
C31_RoundRobinResponseBound ==
    (pc \in {"loop", "done"} /\ alg = "round_robin") =>
        /\ \A i \in DOMAIN processes :
              LET p == heap[processes[i]]
              IN  /\ (p.start_time = Unset /\ p.arrival_time <= current_time)
                     => current_time - p.arrival_time <= ResponseBound
                  /\ p.start_time # Unset
                     => p.start_time - p.arrival_time <= ResponseBound
                  /\ p.completion_time # Unset => p.response_time <= ResponseBound
        /\ pc = "done" =>
              /\ Len(Finalized) = Len(processes)
              /\ \A i \in DOMAIN Finalized :
                    /\ Finalized[i].response_time >= 0
                    /\ Finalized[i].response_time <= ResponseBound

\* A finished round_robin run of three processes, each with a burst_time
\* larger than the quantum, in which one process waited exactly (n - 1) * q
\* for its first dispatch.
C31_Witness ==
    /\ pc = "done"
    /\ alg = "round_robin"
    /\ Len(Finalized) = 3
    /\ \A i \in DOMAIN Finalized : Finalized[i].burst_time > time_quantum
    /\ \E i \in DOMAIN Finalized : Finalized[i].response_time = ResponseBound

====
